---- MODULE Spec2Model ----
(***************************************************************************)
(* A model of mdmailbox: the credential file parser and lookup             *)
(* (src/mdmail/authinfo.py), the SMTP sender (src/mdmailbox/smtp.py) and   *)
(* the send command (src/mdmailbox/cli.py, src/mdmail/cli.py).             *)
(*                                                                         *)
(* Strings are sequences of atoms: one atom per character that matters     *)
(* (" ", "\t", "\n", "#", "@", ".", "+", "*", letters) and one atom for a  *)
(* run of characters that is only ever compared as a whole ("machine",     *)
(* "gmail.com").  Equality of two such sequences is equality of the        *)
(* strings they stand for.                                                 *)
(***************************************************************************)
EXTENDS FiniteSets, Integers, Sequences, TLC

VARIABLES
    authinfo_fs,   \* credential files on disk: path -> file state
    environ,       \* os.environ.get("AUTHINFO_FILE")
    op,            \* the operation applied last
    email_arg,     \* find_credential_by_email: its email argument
    path_arg,      \* find_credential_by_email / parse_authinfo: its path argument
    found,         \* find_credential_by_email: what the call produced
    credentials,   \* parse_authinfo: what the call produced
    fs,            \* message files on disk: the paths that exist -> content
    fs0,           \* fs as it was when the command started
    argv,          \* the invocation: program, file, options, send_email arguments
    pc,            \* where the invocation stands
    email,         \* send: the parsed Email
    credential,    \* send_email: the credential in use
    smtp,          \* the calls made on smtplib.SMTP, in order
    delivered,     \* what send_message handed to the server
    result,        \* the SendResult send_email returned
    calls,         \* how often send_email was called
    sent_path,     \* send: where the sent copy goes
    exit,          \* how the invocation ended
    args,          \* a function applied directly: its arguments
    ret,           \* a function applied directly: what it returned
    maildir,       \* import: the source files, in scanning order
    inbox,         \* import: the files of the output directory: name -> content
    index,         \* import: the (account, fingerprint) pairs already imported
    run,           \* import: the run in progress
    shown,         \* credentials: what the command printed, per invocation
    esmtp_features,\* send_email: the extensions the server's last EHLO reply advertised
    to_addrs       \* send_email: the to_addrs argument of the send_message call

authVars == <<authinfo_fs, environ, op, email_arg, path_arg, found, credentials>>

sendVars ==
    <<fs, fs0, argv, pc, email, credential, smtp, delivered, result, calls, sent_path, exit,
      esmtp_features, to_addrs>>

\* The functions applied directly (Email.to_string, Email.from_string).
pureVars == <<args, ret>>

\* What the credential lookup and the send command leave alone.
importVars == <<maildir, inbox, index, run>>

toolVars == <<pureVars, importVars, shown>>

vars == <<authVars, sendVars, toolVars>>

----------------------------------------------------------------------------
(* Bounds *)

\* Most lines a credential file holds.
MaxLines == 2

\* The largest "-<i>" suffix among the files the sent directory starts with.
MaxSuffix == 1

----------------------------------------------------------------------------
(* Values *)

None == [kind |-> "None"]
\* None where a str may stand.
NoStr == <<"None">>
Unset == [kind |-> "unset"]
Raised(exc) == [kind |-> "raised", exc |-> exc]
Returned(v) == [kind |-> "returned", value |-> v]

\* dataclass Credential
Credential(machine, login, password) ==
    [kind |-> "Credential", machine |-> machine, login |-> login, password |-> password]

Missing == [kind |-> "missing"]
\* A path that exists and whose read_text() raises (a directory, bytes that do
\* not decode).
Unreadable == [kind |-> "unreadable"]
File(text) == [kind |-> "file", text |-> text]

PathNone == "<None>"
ArgPath == "arg.authinfo"
EnvPath == "env.authinfo"
HomePath == "~/.authinfo"
AuthPaths == {ArgPath, EnvPath, HomePath}

----------------------------------------------------------------------------
(* str methods *)

IsSpace(c) == c \in {" ", "\t"}

RECURSIVE lstrip(_)
lstrip(s) == IF s # <<>> /\ IsSpace(Head(s)) THEN lstrip(Tail(s)) ELSE s

RECURSIVE rstrip(_)
rstrip(s) ==
    IF s # <<>> /\ IsSpace(s[Len(s)]) THEN rstrip(SubSeq(s, 1, Len(s) - 1)) ELSE s

strip(s) == rstrip(lstrip(s))

startswith(s, c) == Len(s) >= 1 /\ s[1] = c

\* The length of the longest prefix of s holding no atom of stop.
RECURSIVE span(_, _)
span(s, stop) ==
    IF s = <<>> \/ Head(s) \in stop THEN 0 ELSE 1 + span(Tail(s), stop)

\* str.split(): the maximal runs of non-whitespace.
RECURSIVE split(_)
split(s) ==
    LET t == lstrip(s)
        n == span(t, {" ", "\t"})
    IN  IF t = <<>> THEN <<>>
        ELSE <<SubSeq(t, 1, n)>> \o split(SubSeq(t, n + 1, Len(t)))

\* str.splitlines(): the text cut at each "\n"; no empty last line.
RECURSIVE splitlines(_)
splitlines(text) ==
    LET n == span(text, {"\n"})
    IN  IF text = <<>> THEN <<>>
        ELSE <<SubSeq(text, 1, n)>> \o splitlines(SubSeq(text, n + 2, Len(text)))

----------------------------------------------------------------------------
(* parse_authinfo *)

kMachine == <<"machine">>
kLogin == <<"login">>
kPassword == <<"password">>
kPort == <<"port">>

\* The keys the scan recognizes.
KEYS == {kMachine, kLogin, kPassword, kPort}

\* The while loop over parts: a recognized key takes the next token as its
\* value, any other token is stepped over.  i is the code's 0-based index.
RECURSIVE parse_pairs(_, _, _)
parse_pairs(parts, i, entry) ==
    IF i < Len(parts) - 1
    THEN LET key == parts[i + 1]
         IN  IF key \in KEYS
             THEN parse_pairs(parts, i + 2, (key :> parts[i + 2]) @@ entry)
             ELSE parse_pairs(parts, i + 1, entry)
    ELSE entry

\* The body of the for loop: the credentials one line appends.
parse_line_NoCommentCheck(raw) ==
    LET line == strip(raw)
        entry == parse_pairs(split(line), 0, <<>>)
    IN  IF line = <<>>
        THEN <<>>
        ELSE IF {kMachine, kLogin, kPassword} \subseteq DOMAIN entry
             THEN <<Credential(entry[kMachine], entry[kLogin], entry[kPassword])>>
             ELSE <<>>

parse_line(raw) ==
    LET line == strip(raw)
        entry == parse_pairs(split(line), 0, <<>>)
    IN  IF line = <<>> \/ startswith(line, "#")
        THEN <<>>
        ELSE IF {kMachine, kLogin, kPassword} \subseteq DOMAIN entry
             THEN <<Credential(entry[kMachine], entry[kLogin], entry[kPassword])>>
             ELSE <<>>

RECURSIVE parse_lines(_)
parse_lines(lines) ==
    IF lines = <<>> THEN <<>> ELSE parse_line(Head(lines)) \o parse_lines(Tail(lines))

\* parse_authinfo(path): path.read_text() raises for a path that is missing or
\* cannot be read.
parse_authinfo(path) ==
    LET f == authinfo_fs[path]
    IN  IF f.kind = "missing" THEN Raised("FileNotFoundError")
        ELSE IF f.kind = "unreadable" THEN Raised("OSError")
        ELSE Returned(parse_lines(splitlines(f.text)))

----------------------------------------------------------------------------
(* find_credential_by_email *)

\* path is None: $AUTHINFO_FILE when set and non-empty, else ~/.authinfo.
default_path(path) ==
    IF path # PathNone THEN path
    ELSE IF environ # PathNone /\ environ # "" THEN environ
    ELSE HomePath

exists(path) == authinfo_fs[path].kind # "missing"

\* for cred in credentials: if cred.login == address: return cred
RECURSIVE first_login(_, _)
first_login(creds, address) ==
    IF creds = <<>> THEN None
    ELSE IF Head(creds).login = address THEN Head(creds)
    ELSE first_login(Tail(creds), address)

\* As first_login, comparing with the "." atoms of both sides removed.
RECURSIVE first_login_DotFolded(_, _)
first_login_DotFolded(creds, address) ==
    IF creds = <<>> THEN None
    ELSE IF SelectSeq(Head(creds).login, LAMBDA c : c # ".")
              = SelectSeq(address, LAMBDA c : c # ".")
         THEN Head(creds)
    ELSE first_login_DotFolded(Tail(creds), address)

find_credential_by_email_DotFolded(address, path) ==
    LET p == default_path(path)
        parsed == parse_authinfo(p)
    IN  IF ~exists(p) THEN None
        ELSE IF parsed.kind = "raised" THEN parsed
        ELSE first_login_DotFolded(parsed.value, address)

\* As find_credential_by_email without the path.exists() test.
find_credential_by_email_NoExistsCheck(address, path) ==
    LET p == default_path(path)
        parsed == parse_authinfo(p)
    IN  IF parsed.kind = "raised" THEN parsed
        ELSE first_login(parsed.value, address)

find_credential_by_email(address, path) ==
    LET p == default_path(path)
        parsed == parse_authinfo(p)
    IN  IF ~exists(p) THEN None
        ELSE IF parsed.kind = "raised" THEN parsed
        ELSE first_login(parsed.value, address)

----------------------------------------------------------------------------
(* Inputs *)

\* The tokens of ts joined by single spaces.
RECURSIVE Words(_)
Words(ts) ==
    IF ts = <<>> THEN <<>>
    ELSE IF Len(ts) = 1 THEN Head(ts)
    ELSE Head(ts) \o <<" ">> \o Words(Tail(ts))

\* The lines of ls, each ended by "\n".
RECURSIVE Text(_)
Text(ls) == IF ls = <<>> THEN <<>> ELSE Head(ls) \o <<"\n">> \o Text(Tail(ls))

RECURSIVE SeqsUpTo(_, _)
SeqsUpTo(S, n) ==
    IF n = 0 THEN {<<>>}
    ELSE LET shorter == SeqsUpTo(S, n - 1)
         IN  shorter \cup {Append(s, x) : s \in {t \in shorter : Len(t) = n - 1}, x \in S}

Addr(local, domain) == local \o <<"@", domain>>

Locals == {<<"u", "s">>, <<"u", ".", "s">>, <<"u", "s", "+", "t">>, <<"v">>}
Domains == {"gmail.com", "example.com"}
Emails == {Addr(l, d) : l \in Locals, d \in Domains}

EntryLine(machine, login, password) ==
    Words(<<kMachine, <<machine>>, kLogin, login, kPassword, <<password>>>>)

\* The lines the lookup is tried on: literal logins (one of them twice, with
\* two passwords), wildcard logins, a comment.
LookupLines ==
    { EntryLine("smtp.gmail.com", Addr(<<"u", "s">>, "gmail.com"), "p1"),
      EntryLine("smtp.example.com", Addr(<<"u", "s">>, "example.com"), "p1"),
      EntryLine("smtp.example.com", Addr(<<"u", "s">>, "example.com"), "p2"),
      EntryLine("smtp.example.com", Addr(<<"*">>, "example.com"), "pw"),
      EntryLine("smtp.gmail.com", Addr(<<"*">>, "gmail.com"), "pw"),
      <<"#", " ", "c">> }

LookupFiles == {File(Text(ls)) : ls \in SeqsUpTo(LookupLines, MaxLines)}

\* The lines the parser is tried on.
ParseLines ==
    { <<>>,
      <<" ", "\t">>,
      <<"#", " ", "c">>,
      <<" ", "#", "c">>,
      <<"#", " ">> \o EntryLine("h", <<"u">>, "p"),
      EntryLine("h", <<"u">>, "p"),
      <<"\t">> \o EntryLine("h2", <<"v">>, "q") \o <<" ">>,
      Words(<<kMachine, <<"h">>, kLogin, <<"u">>>>),
      Words(<<kMachine, <<"h">>, kLogin, <<"u">>, kPassword>>),
      Words(<<kLogin, <<"u">>, kPassword, <<"#", "p">>, kPort, <<"25">>, kMachine, <<"h">>>>),
      Words(<<<<"x">>, kMachine, <<"h">>, <<"y">>, kLogin, <<"u">>, kPassword, <<"p">>>>),
      Words(<<<<"x">>, <<"y">>, kMachine, <<"h">>, kLogin, <<"u">>, kPassword, <<"p">>>>),
      Words(<<<<"x">>, kMachine, kMachine, <<"h">>, kLogin, <<"u">>, kPassword, <<"p">>>>),
      Words(<<<<"x">>, kLogin, kMachine, <<"h">>, kLogin, <<"u">>, kPassword, <<"p">>>>) }

ParseFiles == {File(Text(ls)) : ls \in SeqsUpTo(ParseLines, MaxLines)}

----------------------------------------------------------------------------
(* The credential lookup, applied to every file and address of the bounds *)

\* No invocation of a command.
SendOff ==
    /\ fs = <<>>
    /\ fs0 = <<>>
    /\ argv = Unset
    /\ pc = "off"
    /\ email = Unset
    /\ credential = Unset
    /\ smtp = <<>>
    /\ delivered = <<>>
    /\ result = Unset
    /\ calls = 0
    /\ sent_path = <<>>
    /\ exit = Unset
    /\ esmtp_features = {}
    /\ to_addrs = <<>>

\* No function applied directly.
PureIdle ==
    /\ args = Unset
    /\ ret = Unset

ImportIdle ==
    /\ maildir = <<>>
    /\ inbox = <<>>
    /\ index = {}
    /\ run = Unset

ToolsIdle == PureIdle /\ ImportIdle /\ shown = {}

AuthIdle ==
    /\ op = "init"
    /\ email_arg = <<>>
    /\ path_arg = PathNone
    /\ found = Unset
    /\ credentials = Unset

\* One credential file (or none) at one of the three paths.
InitAuth ==
    /\ \E f \in LookupFiles \cup {Missing, Unreadable}, holder \in AuthPaths :
           authinfo_fs = [p \in AuthPaths |-> IF p = holder THEN f ELSE Missing]
    /\ environ \in {PathNone, "", EnvPath}
    /\ AuthIdle
    /\ SendOff
    /\ ToolsIdle

Find(address, path) ==
    /\ op' = "find"
    /\ email_arg' = address
    /\ path_arg' = path
    /\ found' = find_credential_by_email(address, path)
    /\ UNCHANGED <<authinfo_fs, environ, credentials, sendVars, toolVars>>

NextAuth == \E address \in Emails, path \in {PathNone, ArgPath} : Find(address, path)

SpecAuth == InitAuth /\ [][NextAuth]_vars

----------------------------------------------------------------------------
(* The parser, applied to every file of the bounds *)

InitParse ==
    /\ \E f \in ParseFiles \cup {Unreadable} :
           authinfo_fs = [p \in AuthPaths |-> IF p = ArgPath THEN f ELSE Missing]
    /\ environ = PathNone
    /\ AuthIdle
    /\ SendOff
    /\ ToolsIdle

Parse(path) ==
    /\ op' = "parse"
    /\ path_arg' = path
    /\ credentials' = parse_authinfo(path)
    /\ UNCHANGED <<authinfo_fs, environ, email_arg, found, sendVars, toolVars>>

NextParse == Parse(ArgPath)

SpecParse == InitParse /\ [][NextParse]_vars

----------------------------------------------------------------------------
(* Email, SendResult, exceptions *)

\* Email: the fields the sender and the send command read.
Email(from_addr, to, cc, bcc, subject, message_id, date) ==
    [kind |-> "Email", from_addr |-> from_addr, to |-> to, cc |-> cc, bcc |-> bcc,
     subject |-> subject, body |-> <<"body">>, message_id |-> message_id, date |-> date,
     account |-> NoStr, original_hash |-> NoStr]

\* dataclass SendResult: success, message, message_id and no other attribute.
SendResult(success, message, message_id) ==
    [success |-> success, message |-> message, message_id |-> message_id]

\* getattr: a record has the attributes that are its fields.
HasAttr(obj, name) == name \in DOMAIN obj

\* An f-string: a literal followed by a formatted value (a string).
Message(literal, value) == [literal |-> literal, value |-> value]

SMTPAuthenticationErrors == {"SMTPAuthenticationError"}
SMTPExceptions ==
    SMTPAuthenticationErrors \cup
        {"SMTPConnectError", "SMTPHeloError", "SMTPNotSupportedError",
         "SMTPRecipientsRefused", "SMTPResponseException"}

\* What each call on the server object can raise.
ConnectErrors == {"ConnectionRefusedError", "SMTPConnectError"}
EhloErrors == {"SMTPHeloError"}
StarttlsErrors == {"SMTPNotSupportedError"}
LoginErrors == {"SMTPAuthenticationError", "SMTPNotSupportedError"}
SendMessageErrors == {"SMTPRecipientsRefused", "ValueError"}
QuitErrors == {"SMTPResponseException"}

\* The except clauses of send_email, first match first.
handle(exc) ==
    IF exc \in SMTPAuthenticationErrors
    THEN SendResult(FALSE, Message("Authentication failed: ", <<exc>>), NoStr)
    ELSE IF exc \in SMTPExceptions
    THEN SendResult(FALSE, Message("SMTP error: ", <<exc>>), NoStr)
    ELSE SendResult(FALSE, Message("Failed to send: ", <<exc>>), NoStr)

\* How an invocation ends.
ExitOk == [kind |-> "ok"]
ClickException(message) == [kind |-> "ClickException", message |-> message]
Uncaught(exc) == [kind |-> "uncaught", exc |-> exc]
ReturnedResult == [kind |-> "returned"]

----------------------------------------------------------------------------
(* Email.to_mime, Email.save, sanitize_filename: mdmailbox/email.py and      *)
(* mdmailbox/importer.py                                                     *)

\* to_mime: the record's headers, with a Message-ID generated when it has none.
to_mime(e) ==
    [From |-> e.from_addr, To |-> e.to, Cc |-> e.cc, Subject |-> e.subject,
     MessageID |-> IF e.message_id = NoStr THEN <<"<generated>">> ELSE e.message_id,
     body |-> e.body]

\* The text of a message file: the header block and body of e, then what was
\* appended.
MessageFile(e, appended) == [kind |-> "message", email |-> e, appended |-> appended]
\* A file Email.from_file cannot parse.
Malformed == [kind |-> "malformed"]

\* Email.save(path): the file at path is (over)written with the record's text.
save(files, e, path) == (path :> MessageFile(e, <<>>)) @@ files

lower(c) == IF c = "H" THEN "h" ELSE c
IsAlnum(c) == c \in {"h", "i", "1", "2", "s", "u", "v"}

\* Lowercase; every run of non-alphanumerics becomes one "-".
RECURSIVE slug_runs(_, _)
slug_runs(s, in_run) ==
    IF s = <<>> THEN <<>>
    ELSE IF IsAlnum(lower(Head(s))) THEN <<lower(Head(s))>> \o slug_runs(Tail(s), FALSE)
    ELSE IF in_run THEN slug_runs(Tail(s), TRUE)
    ELSE <<"-">> \o slug_runs(Tail(s), TRUE)

RECURSIVE trim_dashes(_)
trim_dashes(s) ==
    IF s # <<>> /\ Head(s) = "-" THEN trim_dashes(Tail(s))
    ELSE IF s # <<>> /\ s[Len(s)] = "-" THEN trim_dashes(SubSeq(s, 1, Len(s) - 1))
    ELSE s

sanitize_filename(text, max_len) ==
    LET t == trim_dashes(slug_runs(text, FALSE))
        cut == SubSeq(t, 1, IF Len(t) < max_len THEN Len(t) ELSE max_len)
    IN  IF cut = <<>> THEN <<"unknown">> ELSE cut

----------------------------------------------------------------------------
(* Email.to_string, Email.from_string: mdmailbox/email.py                    *)
(*                                                                           *)
(* The text of a message file is a sequence of atoms: "\n" ends a line, the  *)
(* delimiter "---" and the marks ":", " ", "-" of the header block are atoms *)
(* of their own.  The header codec (YAML) is taken at its interface: one     *)
(* "key: value" line per scalar, a "key:" line and one "- item" line per     *)
(* element for a list.                                                       *)

Delim == "---"

\* The atoms of one line and the newline that ends it.
Line(atoms) == atoms \o <<"\n">>

RECURSIVE rstrip_newlines(_)
rstrip_newlines(s) ==
    IF s # <<>> /\ s[Len(s)] = "\n" THEN rstrip_newlines(SubSeq(s, 1, Len(s) - 1)) ELSE s

\* Only populated fields are emitted.
scalar_field(key, value) ==
    IF value = <<>> \/ value = NoStr THEN <<>> ELSE Line(<<key, ":", " ">> \o value)

RECURSIVE list_items(_)
list_items(vs) ==
    IF vs = <<>> THEN <<>> ELSE Line(<<"-", " ">> \o Head(vs)) \o list_items(Tail(vs))

list_field(key, vs) == IF vs = <<>> THEN <<>> ELSE Line(<<key, ":">>) \o list_items(vs)

\* The header block between its two delimiter lines.
header_block(e) ==
    scalar_field("from", e.from_addr)
        \o list_field("to", e.to)
        \o list_field("cc", e.cc)
        \o list_field("bcc", e.bcc)
        \o scalar_field("subject", e.subject)
        \o scalar_field("date", e.date)
        \o scalar_field("message-id", e.message_id)
        \o scalar_field("account", e.account)
        \o scalar_field("original-hash", e.original_hash)

\* to_string: the header block, a blank line, the body ending in exactly one
\* newline.
to_string(e) ==
    Line(<<Delim>>) \o header_block(e) \o Line(<<Delim>>)
        \o <<"\n">> \o rstrip_newlines(e.body) \o <<"\n">>

\* A delimiter line starts at atom i of text.
IsDelimAt(text, i) ==
    /\ text[i] = Delim
    /\ (i = 1 \/ text[i - 1] = "\n")
    /\ (i = Len(text) \/ text[i + 1] = "\n")

\* The header lines decoded as a mapping: key -> scalar or list.
RECURSIVE yaml_load(_, _, _)
yaml_load(lines, key, acc) ==
    IF lines = <<>> THEN acc
    ELSE LET l == Head(lines)
         IN  IF Len(l) >= 2 /\ l[1] = "-" /\ l[2] = " " /\ key # ""
             THEN yaml_load(Tail(lines), key,
                            [acc EXCEPT ![key].value = Append(@, SubSeq(l, 3, Len(l)))])
             ELSE IF Len(l) = 2 /\ l[2] = ":"
             THEN yaml_load(Tail(lines), l[1],
                            (l[1] :> [list |-> TRUE, value |-> <<>>]) @@ acc)
             ELSE IF Len(l) >= 3 /\ l[2] = ":" /\ l[3] = " "
             THEN yaml_load(Tail(lines), "",
                            (l[1] :> [list |-> FALSE, value |-> SubSeq(l, 4, Len(l))]) @@ acc)
             ELSE yaml_load(Tail(lines), "", acc)

\* headers.get(key, default) for a scalar field.
get_scalar(headers, key, default) ==
    IF key \in DOMAIN headers /\ ~headers[key].list THEN headers[key].value ELSE default

\* A to/cc/bcc value: a list, or a scalar taken as a one-element list.
get_list(headers, key) ==
    IF key \notin DOMAIN headers THEN <<>>
    ELSE IF headers[key].list THEN headers[key].value
    ELSE <<headers[key].value>>

\* The body: what follows the closing delimiter line, less one leading blank
\* line and the trailing newlines.
body_after_KeepBlankLine(rest) == rstrip_newlines(rest)

body_after(rest) ==
    rstrip_newlines(IF rest # <<>> /\ Head(rest) = "\n" THEN Tail(rest) ELSE rest)

\* from_string: the header block is the text between the leading delimiter
\* line and the first delimiter line after it; a text without them is
\* rejected.
from_string(text) ==
    LET closing == {i \in 3..Len(text) : IsDelimAt(text, i)}
        c == CHOOSE i \in closing : \A j \in closing : i <= j
        headers == yaml_load(splitlines(SubSeq(text, 3, c - 1)), "", <<>>)
    IN  IF ~(Len(text) >= 2 /\ IsDelimAt(text, 1) /\ closing # {})
        THEN Raised("ValueError")
        ELSE [kind |-> "Email",
              from_addr |-> get_scalar(headers, "from", <<>>),
              to |-> get_list(headers, "to"),
              cc |-> get_list(headers, "cc"),
              bcc |-> get_list(headers, "bcc"),
              subject |-> get_scalar(headers, "subject", <<>>),
              body |-> body_after(SubSeq(text, c + 2, Len(text))),
              message_id |-> get_scalar(headers, "message-id", NoStr),
              date |-> get_scalar(headers, "date", NoStr),
              account |-> get_scalar(headers, "account", NoStr),
              original_hash |-> get_scalar(headers, "original-hash", NoStr)]

----------------------------------------------------------------------------
(* send_email *)

DefaultPort == 587
SubjectSlugLen == 40

\* recipients = list(email.to); extend(email.cc); extend(email.bcc)
recipients(e) == e.to \o e.cc \o e.bcc

\* Where send_email returns to.
AfterSendEmail == IF argv.prog = "api" THEN "done" ELSE "cli_result"
Return(r) ==
    /\ result' = r
    /\ pc' = AfterSendEmail
    /\ exit' = IF argv.prog = "api" THEN ReturnedResult ELSE exit

\* An exception no frame handles: the invocation ends with it.
Propagate(exc) ==
    /\ pc' = "done"
    /\ exit' = Uncaught(exc)

\* As lookup_outcome without the test for None.
lookup_ConnectAnyway(c) ==
    /\ credential' = Credential(<<"localhost">>, <<>>, <<>>)
    /\ pc' = "se_connect"
    /\ UNCHANGED <<result, exit>>

\* Lines 40-45: what the lookup by the record's from address produced: none
\* found returns the failure at once, an exception leaves send_email.
lookup_outcome(c) ==
    IF c = None
    THEN /\ Return(SendResult(FALSE,
                              Message("No credentials found for ", email.from_addr), NoStr))
         /\ UNCHANGED credential
    ELSE IF c.kind = "raised"
    THEN Propagate(c.exc) /\ UNCHANGED <<result, credential>>
    ELSE /\ credential' = c
         /\ pc' = "se_connect"
         /\ UNCHANGED <<result, exit>>

\* Lines 38-53: the credential passed in, or the one looked up.
SeLookup ==
    /\ pc = "se_lookup"
    /\ IF argv.credential # None
       THEN /\ credential' = argv.credential
            /\ pc' = "se_connect"
            /\ UNCHANGED <<result, exit>>
       ELSE lookup_outcome(find_credential_by_email(email.from_addr, argv.authinfo))
    /\ UNCHANGED <<authVars, toolVars, esmtp_features, to_addrs,
                   fs, fs0, argv, email, smtp, delivered, calls, sent_path>>

\* A call on the server made inside the with block: it is logged; when it
\* raises, the with block is left (SMTP.__exit__ sends QUIT) and the except
\* clauses make the result.
InBlock(call, out, next) ==
    IF out = "ok"
    THEN /\ smtp' = Append(smtp, call)
         /\ pc' = next
         /\ UNCHANGED <<result, exit>>
    ELSE /\ smtp' = smtp \o <<call, "quit">>
         /\ Return(handle(out))

\* Line 56: smtplib.SMTP(credential.machine, port) connects.
SeConnect ==
    /\ pc = "se_connect"
    /\ \E out \in {"ok"} \cup ConnectErrors :
           /\ smtp' = Append(smtp, "connect")
           /\ IF out = "ok"
              THEN pc' = "se_ehlo" /\ UNCHANGED <<result, exit>>
              ELSE Return(handle(out))
    /\ UNCHANGED <<authVars, toolVars, esmtp_features, to_addrs,
                   fs, fs0, argv, email, credential, delivered, calls, sent_path>>

\* Line 57.
SeEhlo ==
    /\ pc = "se_ehlo"
    /\ \E out \in {"ok"} \cup EhloErrors, features \in SUBSET {"auth"} :
           /\ InBlock("ehlo", out, IF argv.use_tls THEN "se_starttls" ELSE "se_auth")
           /\ esmtp_features' = IF out = "ok" THEN features ELSE esmtp_features
    /\ UNCHANGED <<authVars, toolVars, to_addrs,
                   fs, fs0, argv, email, credential, delivered, calls, sent_path>>

\* Lines 58-59.  smtplib forgets the extensions of the first EHLO when the
\* connection is upgraded.
SeStarttls ==
    /\ pc = "se_starttls"
    /\ \E out \in {"ok"} \cup StarttlsErrors :
           /\ InBlock("starttls", out, "se_ehlo2")
           /\ esmtp_features' = IF out = "ok" THEN {} ELSE esmtp_features
    /\ UNCHANGED <<authVars, toolVars, to_addrs,
                   fs, fs0, argv, email, credential, delivered, calls, sent_path>>

\* Line 60.
SeEhloAgain ==
    /\ pc = "se_ehlo2"
    /\ \E out \in {"ok"} \cup EhloErrors, features \in SUBSET {"auth"} :
           /\ InBlock("ehlo", out, "se_auth")
           /\ esmtp_features' = IF out = "ok" THEN features ELSE esmtp_features
    /\ UNCHANGED <<authVars, toolVars, to_addrs,
                   fs, fs0, argv, email, credential, delivered, calls, sent_path>>

\* server.has_extn(opt): the extension is among those of the last EHLO reply.
has_extn(opt) == opt \in esmtp_features

\* As SeLogin, logging in whatever the server advertised.
SeLogin_Always ==
    /\ pc = "se_auth"
    /\ \E out \in {"ok"} \cup LoginErrors : InBlock("login", out, "se_send")
    /\ UNCHANGED <<authVars, toolVars, esmtp_features, to_addrs,
                   fs, fs0, argv, email, credential, delivered, calls, sent_path>>

\* Lines 62-63: login only when the server advertised AUTH.
SeLogin ==
    /\ pc = "se_auth"
    /\ \E out \in {"ok"} \cup LoginErrors :
           IF has_extn("auth")
           THEN InBlock("login", out, "se_send")
           ELSE /\ out = "ok"
                /\ pc' = "se_send"
                /\ UNCHANGED <<smtp, result, exit>>
    /\ UNCHANGED <<authVars, toolVars, esmtp_features, to_addrs,
                   fs, fs0, argv, email, credential, delivered, calls, sent_path>>

\* Line 64.
SeSendMessage ==
    /\ pc = "se_send"
    /\ \E out \in {"ok"} \cup SendMessageErrors :
           /\ InBlock("send_message", out, "se_quit")
           /\ to_addrs' = recipients(email)
           /\ delivered' =
                  IF out = "ok"
                  THEN Append(delivered, [msg |-> to_mime(email), to_addrs |-> recipients(email)])
                  ELSE delivered
    /\ UNCHANGED <<authVars, toolVars, esmtp_features,
                   fs, fs0, argv, email, credential, calls, sent_path>>

\* The end of the with block (QUIT), then lines 66-70.
SeQuit ==
    /\ pc = "se_quit"
    /\ \E out \in {"ok"} \cup QuitErrors :
           /\ smtp' = Append(smtp, "quit")
           /\ IF out = "ok"
              THEN Return(SendResult(TRUE, Message("Email sent successfully", <<>>),
                                     to_mime(email).MessageID))
              ELSE Return(handle(out))
    /\ UNCHANGED <<authVars, toolVars, esmtp_features, to_addrs,
                   fs, fs0, argv, email, credential, delivered, calls, sent_path>>

----------------------------------------------------------------------------
(* The send command *)

Today == <<"2026-01-01">>
Now == <<"2026-01-01T12:00:00">>
SentDir == <<"~/Mdmailbox/sent/">>

\* Lines 85-88 (mdmail/cli.py 44-47): Email.from_file(file).
CliParse ==
    /\ pc = "cli_parse"
    /\ IF fs[argv.file].kind = "message"
       THEN /\ email' = fs[argv.file].email
            /\ pc' = "cli_validate"
            /\ UNCHANGED exit
       ELSE /\ pc' = "done"
            /\ exit' = ClickException(Message("Failed to parse email: ", <<"yaml">>))
            /\ UNCHANGED email
    /\ UNCHANGED <<authVars, toolVars, esmtp_features, to_addrs,
                   fs, fs0, argv, credential, smtp, delivered, result, calls, sent_path>>

\* The header the validation misses first, or "".
missing_header_FromOnly(e) == IF e.from_addr = <<>> THEN "from" ELSE ""

missing_header(e) ==
    IF e.from_addr = <<>> THEN "from"
    ELSE IF e.to = <<>> THEN "to"
    ELSE IF e.subject = <<>> THEN "subject"
    ELSE ""

\* Lines 91-96 and 98, 110 (mdmail/cli.py 50-55, 57, 69).
CliValidate ==
    /\ pc = "cli_validate"
    /\ IF missing_header(email) # ""
       THEN /\ pc' = "done"
            /\ exit' = ClickException(Message("Missing required header: ", <<missing_header(email)>>))
            /\ UNCHANGED calls
       ELSE IF argv.dry_run
       THEN /\ pc' = "cli_dry_run"
            /\ UNCHANGED <<exit, calls>>
       ELSE /\ pc' = "se_lookup"
            /\ calls' = calls + 1
            /\ UNCHANGED exit
    /\ UNCHANGED <<authVars, toolVars, esmtp_features, to_addrs,
                   fs, fs0, argv, email, credential, smtp, delivered, result, sent_path>>

\* As CliDryRun without the return that ends the branch: the command goes on
\* to send.
CliDryRun_NoReturn ==
    /\ pc = "cli_dry_run"
    /\ pc' = "se_lookup"
    /\ calls' = calls + 1
    /\ UNCHANGED <<authVars, toolVars, esmtp_features, to_addrs,
                   fs, fs0, argv, email, credential, smtp, delivered, result,
                   sent_path, exit>>

\* Lines 98-107 (mdmail/cli.py 57-66).
CliDryRun ==
    /\ pc = "cli_dry_run"
    /\ pc' = "done"
    /\ exit' = ExitOk
    /\ UNCHANGED <<authVars, toolVars, esmtp_features, to_addrs,
                   fs, fs0, argv, email, credential, smtp, delivered, result, calls, sent_path>>

\* mdmail/cli.py 71-75.
CliResult0 ==
    /\ pc = "cli_result"
    /\ argv.prog = "mdmail"
    /\ pc' = "done"
    /\ exit' = IF result.success THEN ExitOk ELSE ClickException(result.message)
    /\ UNCHANGED <<authVars, toolVars, esmtp_features, to_addrs,
                   fs, fs0, argv, email, credential, smtp, delivered, result, calls, sent_path>>

\* Lines 129-134: the first of stem.md, stem-1.md, stem-2.md, ... that does
\* not exist.
RECURSIVE free_path(_, _, _)
free_path(files, stem, i) ==
    LET p == SentDir \o stem \o <<"-", ToString(i), ".md">>
    IN  IF p \in DOMAIN files THEN free_path(files, stem, i + 1) ELSE p

new_sent_path(files, subject) ==
    LET stem == Today \o <<"-">> \o sanitize_filename(subject, SubjectSlugLen)
        p == SentDir \o stem \o <<".md">>
    IN  IF p \in DOMAIN files THEN free_path(files, stem, 1) ELSE p

\* Lines 112-137 and 22: the record takes the Message-ID and a date, and
\* _save_with_audit_trail saves it at the free path.
CliSave ==
    /\ pc = "cli_result"
    /\ argv.prog = "mdmailbox"
    /\ result.success
    /\ email' = [email EXCEPT !.message_id = result.message_id,
                              !.date = IF @ = NoStr THEN Now ELSE @]
    /\ sent_path' = new_sent_path(fs, email.subject)
    /\ fs' = save(fs, email', sent_path')
    /\ pc' = "cli_audit"
    /\ UNCHANGED <<authVars, toolVars, esmtp_features, to_addrs,
                   fs0, argv, credential, smtp, delivered, result, calls, exit>>

\* The lines _save_with_audit_trail appends (lines 25-46), each a sequence of
\* atoms.
audit_lines(r) ==
    <<<<>>, <<Delim>>, <<"#", " ", "Send Log">>>>
        \o (IF r.sent_at # NoStr THEN <<<<"sent-at", ":", " ">> \o r.sent_at>> ELSE <<>>)
        \o (IF r.smtp_host # NoStr THEN <<<<"smtp-host", ":", " ">> \o r.smtp_host>> ELSE <<>>)
        \o (IF r.smtp_port # NoStr THEN <<<<"smtp-port", ":", " ">> \o r.smtp_port>> ELSE <<>>)
        \o (IF r.smtp_response # NoStr
            THEN <<<<"smtp-response", ":", " ">> \o r.smtp_response>> ELSE <<>>)
        \o <<<<Delim>>, <<>>>> \o r.log

\* Lines 25-51, then 138-142: the audit trail is appended and the original is
\* removed.  Reading result.sent_at raises AttributeError on a SendResult that
\* has no such attribute.
CliAudit ==
    /\ pc = "cli_audit"
    /\ pc' = "done"
    /\ IF HasAttr(result, "sent_at")
       THEN /\ fs' = [p \in DOMAIN fs \ {argv.file} |->
                         IF p = sent_path
                         THEN [fs[p] EXCEPT !.appended = @ \o audit_lines(result)]
                         ELSE fs[p]]
            /\ exit' = ExitOk
       ELSE /\ exit' = Uncaught("AttributeError")
            /\ UNCHANGED fs
    /\ UNCHANGED <<authVars, toolVars, esmtp_features, to_addrs,
                   fs0, argv, email, credential, smtp, delivered, result, calls, sent_path>>

\* Lines 143-149: reading result.log raises AttributeError on a SendResult
\* that has no such attribute.
CliFailure ==
    /\ pc = "cli_result"
    /\ argv.prog = "mdmailbox"
    /\ ~result.success
    /\ pc' = "done"
    /\ exit' = IF HasAttr(result, "log")
               THEN ClickException(result.message)
               ELSE Uncaught("AttributeError")
    /\ UNCHANGED <<authVars, toolVars, esmtp_features, to_addrs,
                   fs, fs0, argv, email, credential, smtp, delivered, result, calls, sent_path>>

----------------------------------------------------------------------------
(* Invocations *)

Sender == Addr(<<"u", "s">>, "example.com")
Stranger == Addr(<<"v">>, "example.com")
Rcpt(n) == Addr(<<n>>, "example.com")

Subject1 == <<"H", "i">>
Subject2 == <<"H", "i", " ", "1">>
Subject3 == <<"!">>

\* A body that holds a delimited block of audit keys.
AuditLikeBody ==
    <<"hello", "\n">> \o Line(<<Delim>>) \o Line(<<"smtp-host", ":", " ", "h">>)
        \o Line(<<"subject", ":", " ", "x">>) \o <<Delim>>

WithBody(e, body) == [e EXCEPT !.body = body]

\* The records of the message files: complete ones, one whose sender has no
\* credential, and ones missing a required header.
Records ==
    { WithBody(Email(Sender, <<Rcpt("a")>>, <<>>, <<>>, Subject1, NoStr, NoStr), AuditLikeBody),
      Email(Sender, <<Rcpt("a"), Rcpt("b")>>, <<Rcpt("c")>>, <<Rcpt("d")>>, Subject1, NoStr, NoStr),
      Email(Sender, <<Rcpt("a")>>, <<>>, <<>>, Subject2, <<"<m1>">>, <<"2025-01-23">>),
      Email(Sender, <<Rcpt("a")>>, <<>>, <<>>, Subject3, NoStr, NoStr),
      Email(Stranger, <<Rcpt("a")>>, <<>>, <<>>, Subject1, NoStr, NoStr),
      Email(<<>>, <<Rcpt("a")>>, <<>>, <<>>, Subject1, NoStr, NoStr),
      Email(Sender, <<>>, <<Rcpt("c")>>, <<>>, Subject1, NoStr, NoStr),
      Email(Sender, <<Rcpt("a")>>, <<>>, <<>>, <<>>, NoStr, NoStr),
      Email(<<>>, <<>>, <<>>, <<>>, <<>>, NoStr, NoStr) }

\* The credential files a send runs against.
SendAuthFiles ==
    { Missing, Unreadable, File(<<>>),
      File(Text(<<EntryLine("smtp.example.com", Sender, "p1")>>)) }

DraftPath == <<"drafts/", "m", ".md">>
\* The names the sent directory may hold when the command starts.
SentNames ==
    {SentDir \o Today \o <<"-", "h", "i", ".md">>}
        \cup {SentDir \o Today \o <<"-", "h", "i", "-", ToString(i), ".md">> : i \in 1..MaxSuffix}

OldFile(p) == [kind |-> "message", email |-> Unset, appended |-> <<p>>]

\* The send command of mdmailbox or of mdmail on a message file, or a call of
\* send_email.
InitCli ==
    /\ \E existing \in SUBSET SentNames, file \in {DraftPath} \cup SentNames,
          content \in {MessageFile(e, <<>>) : e \in Records} \cup {Malformed} :
           /\ file \in SentNames => file \in existing
           /\ fs = (file :> content) @@ [p \in existing |-> OldFile(p)]
           /\ \E prog \in {"mdmailbox", "mdmail"}, dry_run \in BOOLEAN,
                 authinfo \in {PathNone, ArgPath} :
                  /\ authinfo = ArgPath => exists(ArgPath)
                  /\ argv = [prog |-> prog, file |-> file, authinfo |-> authinfo,
                             dry_run |-> dry_run, credential |-> None,
                             port |-> DefaultPort, use_tls |-> TRUE]
    /\ pc = "cli_parse"
    /\ email = Unset
    /\ calls = 0

InitApi ==
    /\ fs = <<>>
    /\ \E e \in Records, given \in {None, Credential(<<"localhost">>, Sender, <<"p1">>)},
          use_tls \in BOOLEAN, authinfo \in {PathNone, ArgPath} :
           /\ email = e
           /\ argv = [prog |-> "api", file |-> <<>>, authinfo |-> authinfo,
                      dry_run |-> FALSE, credential |-> given,
                      port |-> DefaultPort, use_tls |-> use_tls]
    /\ pc = "se_lookup"
    /\ calls = 1

Init ==
    /\ \E f \in SendAuthFiles : authinfo_fs = [p \in AuthPaths |-> f]
    /\ environ = PathNone
    /\ AuthIdle
    /\ ToolsIdle
    /\ InitCli \/ InitApi
    /\ fs0 = fs
    /\ credential = Unset
    /\ smtp = <<>>
    /\ delivered = <<>>
    /\ result = Unset
    /\ sent_path = <<>>
    /\ exit = Unset
    /\ esmtp_features = {}
    /\ to_addrs = <<>>

Next ==
    \/ CliParse
    \/ CliValidate
    \/ CliDryRun
    \/ SeLookup
    \/ SeConnect
    \/ SeEhlo
    \/ SeStarttls
    \/ SeEhloAgain
    \/ SeLogin
    \/ SeSendMessage
    \/ SeQuit
    \/ CliResult0
    \/ CliSave
    \/ CliAudit
    \/ CliFailure

Spec == Init /\ [][Next]_vars

----------------------------------------------------------------------------
(* generate_filename, parse_rfc822, import_maildir: mdmailbox/importer.py,   *)
(* and the import command                                                    *)

\* The part of an address before "@".
local_part(a) == SubSeq(a, 1, span(a, {"@"}))

\* YYYY-MM-DD of the date, or zeros when there is none.
date_part(date) == IF date = NoStr THEN <<"0000-00-00">> ELSE date

\* The first hex digits of the digest of s.
short_hash(s) == <<"sha">> \o s

\* The first of stem-1.md, stem-2.md, ... that is not taken.
RECURSIVE numbered_name(_, _, _)
numbered_name(existing_names, stem, i) ==
    LET name == stem \o <<"-", ToString(i), ".md">>
    IN  IF name \in existing_names THEN numbered_name(existing_names, stem, i + 1) ELSE name

\* As generate_filename, taking the hashed name without looking whether it is
\* free.
generate_filename_NoRetry(date, from_addr, subject, message_id, existing_names) ==
    LET stem == date_part(date)
                    \o <<"-">> \o sanitize_filename(local_part(from_addr), SubjectSlugLen)
                    \o <<"-">> \o sanitize_filename(subject, SubjectSlugLen)
        base == stem \o <<".md">>
        hashed == stem \o <<"-">> \o short_hash(message_id) \o <<".md">>
    IN  IF base \notin existing_names THEN base
        ELSE IF message_id # NoStr THEN hashed
        ELSE numbered_name(existing_names, stem, 1)

\* <date>-<from-slug>-<subject-slug>.md; when taken, a suffix from the digest
\* of the Message-ID, then a counter, until the name is free.
generate_filename(date, from_addr, subject, message_id, existing_names) ==
    LET stem == date_part(date)
                    \o <<"-">> \o sanitize_filename(local_part(from_addr), SubjectSlugLen)
                    \o <<"-">> \o sanitize_filename(subject, SubjectSlugLen)
        base == stem \o <<".md">>
        hashed == stem \o <<"-">> \o short_hash(message_id) \o <<".md">>
    IN  IF base \notin existing_names THEN base
        ELSE IF message_id # NoStr /\ hashed \notin existing_names THEN hashed
        ELSE numbered_name(existing_names, stem, 1)

\* A raw RFC-822 message; id stands for its bytes.
Rfc822(id, from_addr, to, subject, date, message_id) ==
    [kind |-> "rfc822", id |-> id, from_addr |-> from_addr, to |-> to, subject |-> subject,
     date |-> date, message_id |-> message_id]
\* Bytes the parser rejects.
Garbage == [kind |-> "garbage", id |-> "g"]

\* The SHA-256 hex digest of the raw bytes: different bytes, different digest.
fingerprint(raw) == <<"sha256", raw.id>>

\* ImportedMessage: the record and the fingerprint of what it was parsed from.
parse_rfc822(raw) ==
    IF raw.kind = "garbage" THEN Raised("ValueError")
    ELSE Returned([email |-> Email(raw.from_addr, raw.to, <<>>, <<>>, raw.subject,
                                   raw.message_id, raw.date),
                   original_hash |-> fingerprint(raw)])

\* <root>/<account>/<mailbox>/<name>
SourceFile(account, mailbox, name, raw) ==
    [account |-> account, mailbox |-> mailbox, name |-> name, raw |-> raw]

\* The account label: the one supplied, or the top-level directory's name.
account_of(given, f) == IF given # NoStr THEN given ELSE f.account

\* import_cmd calls import_maildir(maildir_root, output_dir, account, limit);
\* limit 0 stands for None.
ImportStart(account, limit) ==
    /\ run' = [account |-> account, limit |-> limit, cursor |-> 1, created |-> <<>>,
               outcomes |-> <<>>, done |-> FALSE]
    /\ UNCHANGED <<authVars, sendVars, pureVars, maildir, inbox, index, shown>>

ImportRunning ==
    /\ run # Unset
    /\ ~run.done
    /\ run.cursor <= Len(maildir)
    /\ (run.limit = 0 \/ Len(run.created) < run.limit)

\* As known without the query of the index.
known_NoIndex(seen, account, hash) == FALSE

\* The message was already imported for the account.
known(seen, account, hash) == <<account, hash>> \in seen

\* One source file: Failed when it does not parse, Skipped when its
\* fingerprint is in the index for the account, else named, written with
\* account and original-hash, and entered in the index.
ImportOne ==
    /\ ImportRunning
    /\ LET f == maildir[run.cursor]
           account == account_of(run.account, f)
           parsed == parse_rfc822(f.raw)
           hash == fingerprint(f.raw)
           e == [parsed.value.email EXCEPT !.account = account, !.original_hash = hash]
           name == generate_filename(e.date, e.from_addr, e.subject, e.message_id,
                                     DOMAIN inbox)
       IN  IF parsed.kind = "raised"
           THEN /\ run' = [run EXCEPT !.cursor = @ + 1, !.outcomes = Append(@, "Failed")]
                /\ UNCHANGED <<inbox, index>>
           ELSE IF known(index, account, hash)
           THEN /\ run' = [run EXCEPT !.cursor = @ + 1, !.outcomes = Append(@, "Skipped")]
                /\ UNCHANGED <<inbox, index>>
           ELSE /\ inbox' = save(inbox, e, name)
                /\ index' = index \cup {<<account, hash>>}
                /\ run' = [run EXCEPT !.cursor = @ + 1, !.created = Append(@, name),
                                      !.outcomes = Append(@, "Written")]
    /\ UNCHANGED <<authVars, sendVars, pureVars, maildir, shown>>

\* import_maildir returns the created paths (cli.py 196-200).
ImportEnd ==
    /\ run # Unset
    /\ ~run.done
    /\ ~ImportRunning
    /\ run' = [run EXCEPT !.done = TRUE]
    /\ UNCHANGED <<authVars, sendVars, pureVars, maildir, inbox, index, shown>>

\* generate_filename applied to the arguments drawn.
GenerateFilename ==
    /\ op = "init"
    /\ args # Unset
    /\ op' = "generate_filename"
    /\ ret' = generate_filename(args.date, args.from_addr, args.subject, args.message_id,
                                args.existing_names)
    /\ UNCHANGED <<authinfo_fs, environ, email_arg, path_arg, found, credentials, args,
                   sendVars, importVars, shown>>

\* The raw messages: two that differ only in their bytes (one base name), one
\* without date and Message-ID, one that does not parse.
Raws ==
    { Rfc822("m1", Sender, <<Rcpt("a")>>, Subject1, <<"2025-01-22">>, <<"<m1>">>),
      Rfc822("m2", Sender, <<Rcpt("a")>>, Subject1, <<"2025-01-22">>, <<"<m1>">>),
      Rfc822("m3", Stranger, <<Rcpt("a")>>, Subject3, NoStr, NoStr),
      Garbage }

\* The source files a tree may hold, in the order of their paths.
AllSources ==
    <<SourceFile(<<"acct1">>, "Archive", "1", CHOOSE r \in Raws : r.id = "m1"),
      SourceFile(<<"acct1">>, "INBOX", "1", CHOOSE r \in Raws : r.id = "m1"),
      SourceFile(<<"acct1">>, "INBOX", "2", CHOOSE r \in Raws : r.id = "m2"),
      SourceFile(<<"acct1">>, "INBOX", "3", CHOOSE r \in Raws : r.id = "m3"),
      SourceFile(<<"acct1">>, "INBOX", "4", Garbage),
      SourceFile(<<"acct2">>, "INBOX", "1", CHOOSE r \in Raws : r.id = "m1"),
      SourceFile(<<"acct2">>, "INBOX", "2", CHOOSE r \in Raws : r.id = "m3")>>

\* The files of AllSources at the positions in keep, in order.
RECURSIVE Tree(_, _)
Tree(i, keep) ==
    IF i > Len(AllSources) THEN <<>>
    ELSE (IF i \in keep THEN <<AllSources[i]>> ELSE <<>>) \o Tree(i + 1, keep)

\* Most source files a tree holds.
MaxMail == 2

\* The names generate_filename is tried against.
NameStems == {<<"2025-01-22", "-", "u", "s", "-", "h", "i">>, <<"0000-00-00", "-", "v", "-", "unknown">>}
TakenNames ==
    UNION { {stem \o <<".md">>, stem \o <<"-", "sha", "<m1>", ".md">>}
                \cup {stem \o <<"-", ToString(i), ".md">> : i \in 1..MaxSuffix}
            : stem \in NameStems }

InitImport ==
    /\ \E keep \in {k \in SUBSET (1..Len(AllSources)) : Cardinality(k) <= MaxMail} :
           maildir = Tree(1, keep)
    /\ inbox = <<>>
    /\ index = {}
    /\ run = Unset
    /\ authinfo_fs = [p \in AuthPaths |-> Missing]
    /\ environ = PathNone
    /\ AuthIdle
    /\ SendOff
    /\ PureIdle
    /\ shown = {}

NextImport ==
    \/ \E account \in {NoStr, <<"acct1">>}, limit \in {0, 1} : ImportStart(account, limit)
    \/ ImportOne
    \/ ImportEnd

SpecImport == InitImport /\ [][NextImport]_vars

InitNames ==
    /\ authinfo_fs = [p \in AuthPaths |-> Missing]
    /\ environ = PathNone
    /\ AuthIdle
    /\ SendOff
    /\ ImportIdle
    /\ shown = {}
    /\ args \in [date : {NoStr, <<"2025-01-22">>}, from_addr : {Sender, Stranger},
                 subject : {Subject1, Subject3}, message_id : {NoStr, <<"<m1>">>},
                 existing_names : SUBSET TakenNames]
    /\ ret = Unset

NextNames == GenerateFilename

SpecNames == InitNames /\ [][NextNames]_vars

----------------------------------------------------------------------------
(* Email.to_string and Email.from_string, applied to every record of the     *)
(* bounds                                                                    *)

\* Bodies: empty, one and two lines, a blank line inside, a leading blank
\* line, trailing newlines, delimiter lines.
Bodies ==
    { <<>>, <<"l1">>, <<"l1", "\n", "l2">>, <<"l1", "\n", "\n", "l2">>, <<"\n", "l1">>,
      <<"l1", "\n">>, <<"l1", "\n", "\n">>, <<"\n">>, <<Delim>>, AuditLikeBody }

TextRecords ==
    { WithBody(Email(from_addr, to, cc, bcc, subject, message_id, date), body) :
        from_addr \in {<<>>, Sender},
        to \in {<<>>, <<Rcpt("a")>>, <<Rcpt("a"), Rcpt("b")>>},
        cc \in {<<>>, <<Rcpt("c")>>, <<Rcpt("c"), Rcpt("d")>>},
        bcc \in {<<>>},
        subject \in {<<>>, Subject1, <<"Re", ":", " ", "-", " ", "x">>},
        message_id \in {NoStr, <<"<m1>">>},
        date \in {NoStr},
        body \in Bodies }

InitText ==
    /\ authinfo_fs = [p \in AuthPaths |-> Missing]
    /\ environ = PathNone
    /\ AuthIdle
    /\ SendOff
    /\ ImportIdle
    /\ shown = {}
    /\ args \in TextRecords
    /\ ret = Unset

\* email.to_string()
Serialize ==
    /\ op = "init"
    /\ args # Unset
    /\ op' = "to_string"
    /\ ret' = to_string(args)
    /\ UNCHANGED <<authinfo_fs, environ, email_arg, path_arg, found, credentials, args,
                   sendVars, importVars, shown>>

\* Email.from_string(serialized)
Reparse ==
    /\ op = "to_string"
    /\ op' = "from_string"
    /\ ret' = from_string(ret)
    /\ UNCHANGED <<authinfo_fs, environ, email_arg, path_arg, found, credentials, args,
                   sendVars, importVars, shown>>

NextText == Serialize \/ Reparse

SpecText == InitText /\ [][NextText]_vars

----------------------------------------------------------------------------
(* The credentials command *)

\* As mask, showing the password itself.
mask_Plain(password) == password

\* '*' * len(cred.password)
mask(password) == [i \in 1..Len(password) |-> "*"]

\* Lines 320-324: the block printed for each credential of the list.
RECURSIVE list_all(_)
list_all(creds) ==
    IF creds = <<>> THEN <<>>
    ELSE << <<"  ">> \o Head(creds).login,
            <<"    Host: ">> \o Head(creds).machine,
            <<"    Pass: ">> \o mask(Head(creds).password),
            <<>> >> \o list_all(Tail(creds))

\* Lines 289-324 (mdmail/cli.py 137-172): what the command echoes and how it
\* ends.  address is "" when --email is not given.
credentials_command(authinfo, address) ==
    LET path == default_path(authinfo)
        reading == << <<"Reading: ", path>>, <<>> >>
        cred == find_credential_by_email(address, path)
        creds == parse_authinfo(path)
    IN  IF ~exists(path)
        THEN [echo |-> <<>>,
              exit |-> ClickException(Message("Authinfo file not found: ", <<path>>))]
        ELSE IF address # <<>>
        THEN IF cred = None
             THEN [echo |-> reading,
                   exit |-> ClickException(Message("No credentials found for: ", address))]
             ELSE IF cred.kind = "raised"
             THEN [echo |-> reading, exit |-> Uncaught(cred.exc)]
             ELSE [echo |-> reading \o << <<"  Email: ">> \o cred.login,
                                          <<"  Host:  ">> \o cred.machine,
                                          <<"  Pass:  ">> \o mask(cred.password) >>,
                   exit |-> ExitOk]
        ELSE IF creds.kind = "raised"
        THEN [echo |-> reading, exit |-> Uncaught(creds.exc)]
        ELSE IF creds.value = <<>>
        THEN [echo |-> reading \o << <<"No credentials found.">> >>, exit |-> ExitOk]
        ELSE [echo |-> reading \o list_all(creds.value), exit |-> ExitOk]

\* One invocation of the command.
CredentialsCmd(authinfo, address) ==
    /\ shown' = shown \cup {[authinfo |-> authinfo, email |-> address,
                            out |-> credentials_command(authinfo, address)]}
    /\ UNCHANGED <<authVars, sendVars, pureVars, importVars>>

\* Token i of parts is read as a key: it is a recognized key, a token follows
\* it, and it is not itself the value of the key before it.
RECURSIVE IsKeyAt(_, _)
IsKeyAt(parts, i) ==
    /\ parts[i] \in KEYS
    /\ i < Len(parts)
    /\ (i = 1 \/ ~IsKeyAt(parts, i - 1))

\* Token j of parts is the value of a password key.
IsPasswordAt(parts, j) ==
    IF j > 1 THEN parts[j - 1] = kPassword /\ IsKeyAt(parts, j - 1) ELSE FALSE

\* Two credential texts that are the same but for the characters of their
\* passwords.
SameButPasswords(t, u) ==
    LET tl == splitlines(t)
        ul == splitlines(u)
    IN  /\ Len(tl) = Len(ul)
        /\ \A n \in 1..Len(tl) :
               LET a == split(strip(tl[n]))
                   b == split(strip(ul[n]))
               IN  /\ Len(a) = Len(b)
                   /\ \A m \in 1..Len(a) :
                          \/ a[m] = b[m]
                          \/ /\ IsPasswordAt(a, m)
                             /\ IsPasswordAt(b, m)
                             /\ Len(a[m]) = Len(b[m])

\* The passwords of the credential files, by their characters.
Passwords == {<<"a", "b">>, <<"*", "*">>, <<"a">>, <<"#">>}

SenderLines == {Words(<<kMachine, <<"h">>, kLogin, Sender, kPassword, pw>>) : pw \in Passwords}
StrangerLines ==
    {Words(<<kPassword, pw, kMachine, <<"h2">>, kLogin, Stranger>>) : pw \in Passwords}

\* Credential files of no, one and two entries.
CredFiles ==
    {File(<<>>)}
        \cup {File(Text(<<l>>)) : l \in SenderLines \cup StrangerLines}
        \cup {File(Text(<<l1, l2>>)) : l1 \in StrangerLines, l2 \in SenderLines}

\* The user changes passwords in the credential file, each to one of the same
\* length.
ChangePasswords ==
    /\ authinfo_fs[HomePath].kind = "file"
    /\ \E g \in {h \in CredFiles : SameButPasswords(authinfo_fs[HomePath].text, h.text)} :
           /\ g # authinfo_fs[HomePath]
           /\ authinfo_fs' = [p \in AuthPaths |-> g]
    /\ UNCHANGED <<environ, op, email_arg, path_arg, found, credentials, sendVars, toolVars>>

InitCred ==
    /\ \E f \in CredFiles \cup {Missing, Unreadable} : authinfo_fs = [p \in AuthPaths |-> f]
    /\ environ \in {PathNone, EnvPath}
    /\ AuthIdle
    /\ SendOff
    /\ ToolsIdle

NextCred ==
    \/ \E authinfo \in {PathNone, ArgPath}, address \in {<<>>, Sender, Rcpt("a")} :
           /\ authinfo = ArgPath => exists(ArgPath)
           /\ CredentialsCmd(authinfo, address)
    \/ ChangePasswords

SpecCred == InitCred /\ [][NextCred]_vars

----------------------------------------------------------------------------
(* The address forms of the credential store's lookup policy *)

AtIndex(a) == 1 + span(a, {"@"})
LocalOf(a) == SubSeq(a, 1, AtIndex(a) - 1)
DomainOf(a) == SubSeq(a, AtIndex(a) + 1, Len(a))
IsGmail(a) == DomainOf(a) = <<"gmail.com">>
IsWildcard(login) == Len(login) >= 2 /\ login[1] = "*" /\ login[2] = "@"
WildcardFor(a) == <<"*", "@">> \o DomainOf(a)

\* The local part with its "+tag" cut off and its "." removed.
FoldLocal(l) == SelectSeq(SubSeq(l, 1, span(l, {"+"})), LAMBDA c : c # ".")
Fold(a) == FoldLocal(LocalOf(a)) \o <<"@">> \o DomainOf(a)
\* The canonical key of an address: Gmail addresses fold, all others do not.
Normalized(a) == IF IsGmail(a) THEN Fold(a) ELSE a
\* a and b are two spellings that differ only by "." or a "+tag".
FoldedOnly(a, b) == a # b /\ Fold(a) = Fold(b)

\* The file the last call read, and the entries in it.
SeenFile == authinfo_fs[default_path(path_arg)]
Entries == parse_lines(splitlines(SeenFile.text))
Looked == op = "find" /\ SeenFile.kind = "file"

\* The first entry of es whose login satisfies Match, or None.
FirstWhere(es, Match(_)) ==
    IF \E i \in 1..Len(es) : Match(es[i].login)
    THEN es[CHOOSE i \in 1..Len(es) :
                /\ Match(es[i].login)
                /\ \A j \in 1..(i - 1) : ~Match(es[j].login)]
    ELSE None

HasExact == \E i \in 1..Len(Entries) : Entries[i].login = email_arg
HasNormalized ==
    \E i \in 1..Len(Entries) : Normalized(Entries[i].login) = Normalized(email_arg)
HasWildcard == \E i \in 1..Len(Entries) : Entries[i].login = WildcardFor(email_arg)

----------------------------------------------------------------------------
(* Claims on the credential lookup *)

\* C1: an address with an exact-login entry gets the first such entry, also
\* when a wildcard entry for its domain stands earlier in the file; an address
\* with no exact entry (and no normalized match) gets the first wildcard entry
\* for its domain.
C1_ExactThenWildcard ==
    Looked =>
        /\ HasExact => found = FirstWhere(Entries, LAMBDA l : l = email_arg)
        /\ (~HasExact /\ ~HasNormalized /\ HasWildcard)
               => found = FirstWhere(Entries, LAMBDA l : l = WildcardFor(email_arg))

\* C2: against a file holding a single canonical Gmail entry, every gmail.com
\* address that folds to the entry's login (dots removed, "+tag" cut) gets
\* that entry.
C2_GmailFolding ==
    (/\ Looked
     /\ Len(Entries) = 1
     /\ IsGmail(Entries[1].login)
     /\ Entries[1].login = Fold(Entries[1].login)
     /\ IsGmail(email_arg)
     /\ Fold(email_arg) = Entries[1].login)
        => found = Entries[1]

\* C3: a "*@D" entry is returned for every address at D that no exact or
\* normalized entry matches, and a wildcard entry is never returned for an
\* address whose domain is not the entry's.
C3_WildcardDomain ==
    Looked =>
        /\ (HasWildcard /\ ~HasExact /\ ~HasNormalized)
               => /\ found.kind = "Credential"
                  /\ found.login = WildcardFor(email_arg)
        /\ (found.kind = "Credential" /\ IsWildcard(found.login))
               => DomainOf(found.login) = DomainOf(email_arg)

\* C4: for an address that is not at gmail.com the lookup never returns an
\* entry whose login differs from it only by "." or a "+tag", and with such an
\* entry but no exact and no wildcard entry it returns None.
C4_NoFoldingOutsideGmail ==
    (Looked /\ ~IsGmail(email_arg)) =>
        /\ found.kind = "Credential" => ~FoldedOnly(found.login, email_arg)
        /\ (/\ \E i \in 1..Len(Entries) : FoldedOnly(Entries[i].login, email_arg)
            /\ ~HasExact
            /\ ~HasWildcard)
               => found = None

C4_Witness ==
    /\ Looked
    /\ email_arg = Addr(<<"u", ".", "s">>, "example.com")
    /\ \E i \in 1..Len(Entries) : Entries[i].login = Addr(<<"u", "s">>, "example.com")
    /\ ~HasWildcard
    /\ found = None

\* C5: a miss is the value None, never an exception: when the credential file
\* does not exist, when it holds no entry, and when no entry matches.
C5_MissIsNone ==
    op = "find" =>
        /\ SeenFile.kind = "missing" => found = None
        /\ SeenFile.kind = "file" =>
               /\ found.kind \in {"None", "Credential"}
               /\ Entries = <<>> => found = None
               /\ (~HasExact /\ ~HasNormalized /\ ~HasWildcard) => found = None

C5_Witness ==
    /\ Looked
    /\ Entries # <<>>
    /\ ~HasExact /\ ~HasNormalized /\ ~HasWildcard
    /\ found = None

----------------------------------------------------------------------------
(* Claims on the parser *)

\* The values a line gives for key k.
Supplied(raw, k) ==
    LET parts == split(strip(raw))
    IN  {parts[i + 1] : i \in {j \in 1..Len(parts) : parts[j] = k /\ IsKeyAt(parts, j)}}

IsBlank(raw) == \A i \in 1..Len(raw) : IsSpace(raw[i])
IsComment(raw) == \E i \in 1..Len(raw) : raw[i] = "#" /\ \A j \in 1..(i - 1) : IsSpace(raw[j])

Qualifies(raw) ==
    /\ ~IsBlank(raw)
    /\ ~IsComment(raw)
    /\ \A k \in {kMachine, kLogin, kPassword} : Supplied(raw, k) # {}

ParsedLines == splitlines(authinfo_fs[path_arg].text)
\* The indices of the qualifying lines, in file order.
QualifyingLines ==
    SelectSeq([j \in 1..Len(ParsedLines) |-> j], LAMBDA j : Qualifies(ParsedLines[j]))

\* C6: parse_authinfo returns one entry per line that is not blank, not a
\* comment and supplies machine, login and password, in the order of the
\* lines; every other line adds nothing and raises nothing.
C6_OneEntryPerLine ==
    (op = "parse" /\ authinfo_fs[path_arg].kind = "file") =>
        /\ credentials.kind = "returned"
        /\ Len(credentials.value) = Len(QualifyingLines)
        /\ \A n \in 1..Len(QualifyingLines) :
               LET raw == ParsedLines[QualifyingLines[n]]
                   c == credentials.value[n]
               IN  /\ c.machine \in Supplied(raw, kMachine)
                   /\ c.login \in Supplied(raw, kLogin)
                   /\ c.password \in Supplied(raw, kPassword)

C6_Witness ==
    /\ op = "parse"
    /\ authinfo_fs[path_arg].kind = "file"
    /\ Len(ParsedLines) = 2
    /\ IsComment(ParsedLines[1])
    /\ Qualifies(ParsedLines[2])
    /\ credentials = Returned(<<Credential(<<"h">>, <<"u">>, <<"p">>)>>)

\* The positions of the keys when the tokens of a line are read two by two.
PairKeys(parts) == {i \in 1..Len(parts) : i % 2 = 1}

\* A line of key/value pairs in which machine, login and password are each a
\* key once and every other key is unrecognized.
KeyValueLine(parts) ==
    /\ Len(parts) % 2 = 0
    /\ \A k \in {kMachine, kLogin, kPassword} :
           Cardinality({i \in PairKeys(parts) : parts[i] = k}) = 1
    /\ \A i \in PairKeys(parts) : parts[i] \in {kMachine, kLogin, kPassword} \/ parts[i] \notin KEYS

\* The value of the pair whose key is k.
PairValue(parts, k) == parts[(CHOOSE i \in PairKeys(parts) : parts[i] = k) + 1]

\* C18: a line of key/value pairs with machine, login and password once each
\* and any number of unrecognized pairs added (the value of an unrecognized
\* key may be one of the words machine, login, password, port) parses to the
\* entry of its machine, login and password pairs.
C18_UnrecognizedPairsIgnored ==
    (op = "parse" /\ authinfo_fs[path_arg].kind = "file") =>
        \A n \in 1..Len(ParsedLines) :
            LET raw == ParsedLines[n]
                parts == split(strip(raw))
            IN  (~IsComment(raw) /\ KeyValueLine(parts)) =>
                    /\ credentials.kind = "returned"
                    /\ \E idx \in 1..Len(QualifyingLines) :
                           /\ QualifyingLines[idx] = n
                           /\ credentials.value[idx] =
                                  Credential(PairValue(parts, kMachine),
                                             PairValue(parts, kLogin),
                                             PairValue(parts, kPassword))

----------------------------------------------------------------------------
(* Claims on send_email and the send command *)

InSendEmail == pc \in {"se_lookup", "se_connect", "se_ehlo", "se_starttls", "se_ehlo2",
                       "se_auth", "se_send", "se_quit"}
\* send_email was called and is over.
SendEmailOver == calls >= 1 /\ ~InSendEmail

\* C7: send_email never raises: whatever the lookup, the MIME construction
\* and the SMTP dialogue do, it returns a SendResult; a failure carries a
\* non-empty message, a success carries the Message-ID and only follows a
\* completed send_message.
C7_NeverRaises ==
    SendEmailOver =>
        /\ result # Unset
        /\ ~result.success => result.message.literal # ""
        /\ result.success => (result.message_id # NoStr /\ Len(delivered) = 1)

\* C8: with no credential passed in and none found for the record's from
\* address, send_email returns success=false, "No credentials found" and no
\* message_id; nothing was asked of an SMTP server and nothing transmitted.
C8_NoCredentials ==
    (/\ SendEmailOver
     /\ argv.credential = None
     /\ find_credential_by_email(email.from_addr, argv.authinfo) = None)
        => /\ result = SendResult(FALSE, Message("No credentials found for ", email.from_addr),
                                  NoStr)
           /\ smtp = <<>>
           /\ delivered = <<>>

C8_Witness ==
    /\ pc = "done"
    /\ argv.prog = "api"
    /\ argv.credential = None
    /\ authinfo_fs[HomePath].kind = "file"
    /\ email.from_addr = Stranger
    /\ result # Unset
    /\ ~result.success
    /\ result.message.literal = "No credentials found for "
    /\ smtp = <<>>

Complete(e) == e.from_addr # <<>> /\ e.to # <<>> /\ e.subject # <<>>

\* C9: the send command calls send_email only for a record with a from, a
\* recipient and a subject; for any other record it ends with "Missing
\* required header", having asked nothing of an SMTP server and changed no
\* file.
C9_ValidatedBeforeSend ==
    (argv.prog \in {"mdmailbox", "mdmail"} /\ email # Unset) =>
        /\ calls >= 1 => Complete(email)
        /\ (~Complete(email) /\ pc # "cli_validate") =>
               /\ pc = "done"
               /\ exit.kind = "ClickException"
               /\ exit.message.literal = "Missing required header: "
               /\ \/ exit.message.value = <<"from">> /\ email.from_addr = <<>>
                  \/ exit.message.value = <<"to">> /\ email.to = <<>>
                  \/ exit.message.value = <<"subject">> /\ email.subject = <<>>
               /\ calls = 0
               /\ smtp = <<>>
               /\ delivered = <<>>
               /\ fs = fs0

C9_Witness ==
    /\ pc = "done"
    /\ argv.prog = "mdmailbox"
    /\ ~argv.dry_run
    /\ email # Unset
    /\ email.from_addr # <<>>
    /\ email.to = <<>>
    /\ exit = ClickException(Message("Missing required header: ", <<"to">>))
    /\ calls = 0

\* C10: after a successful send the mdmailbox send command has relocated the
\* message: the sent copy stands at a path that did not exist before, every
\* file that existed before (but the original) is unchanged, the original is
\* removed only once the sent copy with its audit trail is written, and when
\* the command is over the original path no longer exists.
C10_RelocatedAfterSend ==
    (argv.prog = "mdmailbox" /\ result # Unset /\ result.success) =>
        /\ pc \in {"cli_audit", "done"} =>
               /\ sent_path \notin DOMAIN fs0
               /\ sent_path \in DOMAIN fs
               /\ fs[sent_path].email = email
        /\ \A p \in DOMAIN fs0 \ {argv.file} : p \in DOMAIN fs /\ fs[p] = fs0[p]
        /\ argv.file \notin DOMAIN fs =>
               (sent_path \in DOMAIN fs /\ fs[sent_path].appended # <<>>)
        /\ pc = "done" => argv.file \notin DOMAIN fs

\* C11: when send_email returned success=false the send command called it
\* exactly once, changed no file (the source stays as it was, the sent
\* directory gets nothing), and ends as a ClickException (exit code 1) whose
\* message is the result's message.
C11_FailureLeavesAllInPlace ==
    (argv.prog \in {"mdmailbox", "mdmail"} /\ result # Unset /\ ~result.success) =>
        /\ calls = 1
        /\ fs = fs0
        /\ pc = "done" => exit = ClickException(result.message)

\* The text of a message file: the serialized record, then the appended
\* lines joined by newlines.
FileText(f) == to_string(f.email) \o Text(f.appended)

\* C12: the file _save_with_audit_trail wrote is the record's header block and
\* body followed by the "# Send Log" block, and parsing it again gives the
\* record's from, to, cc, subject, message-id and date: the audit keys of the
\* second block never reach the primary fields.
C12_AuditTrailNotReparsed ==
    (argv.prog = "mdmailbox" /\ pc = "done" /\ sent_path # <<>>) =>
        LET f == fs[sent_path]
            text == FileText(f)
            again == from_string(text)
        IN  /\ SubSeq(text, 1, Len(to_string(email))) = to_string(email)
            /\ Len(f.appended) >= 3
            /\ SubSeq(f.appended, 1, 3) = <<<<>>, <<Delim>>, <<"#", " ", "Send Log">>>>
            /\ again.kind = "Email"
            /\ again.from_addr = email.from_addr
            /\ again.to = email.to
            /\ again.cc = email.cc
            /\ again.subject = email.subject
            /\ again.message_id = email.message_id
            /\ again.date = email.date

\* C16: send --dry-run never calls send_email, asks nothing of an SMTP server
\* and changes no file (the source stays as it was, the sent directory gets
\* nothing); on a file that parses and passes validation it exits
\* successfully.
C16_DryRunTouchesNothing ==
    (argv.prog \in {"mdmailbox", "mdmail"} /\ argv.dry_run) =>
        /\ calls = 0
        /\ result = Unset
        /\ smtp = <<>>
        /\ delivered = <<>>
        /\ fs = fs0
        /\ (pc = "done" /\ email # Unset /\ Complete(email)) => exit = ExitOk

C16_Witness ==
    /\ argv.prog = "mdmailbox"
    /\ argv.dry_run
    /\ argv.file = DraftPath
    /\ pc = "done"
    /\ email # Unset
    /\ Complete(email)
    /\ exit = ExitOk
    /\ fs = fs0

----------------------------------------------------------------------------
(* Claims on the import pipeline *)

\* A file of the output directory holds the message with this fingerprint for
\* this account.
Imported(account, hash) ==
    \E p \in DOMAIN inbox :
        inbox[p].email.account = account /\ inbox[p].email.original_hash = hash

NoDuplicates ==
    \A p, q \in DOMAIN inbox :
        (/\ inbox[p].email.account = inbox[q].email.account
         /\ inbox[p].email.original_hash = inbox[q].email.original_hash) => p = q

\* The step handles one source file of a run.
IsImportOne == run # Unset /\ run' # Unset /\ run'.cursor = run.cursor + 1

\* C13: over any sequence of import runs no file of the output directory is
\* ever changed or removed, the directory never holds two files with one
\* fingerprint for one account, and handling a source message whose
\* fingerprint is already imported for the account writes nothing and ends
\* as Skipped.
C13_ImportedOnce ==
    [][/\ \A p \in DOMAIN inbox : p \in DOMAIN inbox' /\ inbox'[p] = inbox[p]
       /\ NoDuplicates'
       /\ (/\ IsImportOne
           /\ Imported(account_of(run.account, maildir[run.cursor]),
                       fingerprint(maildir[run.cursor].raw)))
              => /\ inbox' = inbox
                 /\ run'.outcomes = Append(run.outcomes, "Skipped")
                 /\ run'.created = run.created]_vars

\* A second run over a tree of one message: skipped, one file.
C13_Witness ==
    /\ Len(maildir) = 1
    /\ run # Unset
    /\ run.done
    /\ run.outcomes = <<"Skipped">>
    /\ run.created = <<>>
    /\ Cardinality(DOMAIN inbox) = 1

EndsWith(s, suffix) ==
    Len(s) >= Len(suffix) /\ SubSeq(s, Len(s) - Len(suffix) + 1, Len(s)) = suffix

\* <date>-<from-slug>-<subject-slug> of the arguments.
BaseStem(a) ==
    date_part(a.date) \o <<"-">> \o sanitize_filename(local_part(a.from_addr), SubjectSlugLen)
        \o <<"-">> \o sanitize_filename(a.subject, SubjectSlugLen)

\* C14: for every set of existing names generate_filename returns a name that
\* is not in the set and ends in ".md"; when the base name is in the set the
\* result differs from it and is the base stem, "-", a non-empty suffix and
\* ".md".  (That equal arguments give equal names holds of the function by
\* its form: the name is computed from the arguments alone.)
C14_FreshName ==
    op = "generate_filename" =>
        LET stem == BaseStem(args)
        IN  /\ ret \notin args.existing_names
            /\ EndsWith(ret, <<".md">>)
            /\ (stem \o <<".md">>) \in args.existing_names =>
                   /\ ret # stem \o <<".md">>
                   /\ Len(ret) >= Len(stem) + 3
                   /\ SubSeq(ret, 1, Len(stem) + 1) = stem \o <<"-">>

\* The base name and the hashed name are both taken: the counter gives the
\* name.
C14_Witness ==
    /\ op = "generate_filename"
    /\ args.message_id = <<"<m1>">>
    /\ args.date = <<"2025-01-22">> /\ args.from_addr = Sender /\ args.subject = Subject1
    /\ <<"2025-01-22", "-", "u", "s", "-", "h", "i", ".md">> \in args.existing_names
    /\ <<"2025-01-22", "-", "u", "s", "-", "h", "i", "-", "sha", "<m1>", ".md">>
           \in args.existing_names
    /\ <<"2025-01-22", "-", "u", "s", "-", "h", "i", "-", "1", ".md">> \in args.existing_names
    /\ ret = <<"2025-01-22", "-", "u", "s", "-", "h", "i", "-", "2", ".md">>

----------------------------------------------------------------------------
(* Claims on the message file format *)

\* The record has its required headers, and its body is in the form parsing
\* gives a body: no trailing newline.
WellFormed(m) ==
    /\ m.from_addr # <<>>
    /\ m.to # <<>>
    /\ m.subject # <<>>
    /\ rstrip_newlines(m.body) = m.body

----------------------------------------------------------------------------
(* Claims on the credentials command *)

\* C17: whatever characters the passwords of the credential file are changed
\* to (lengths kept), the credentials command invoked with the same options
\* prints the same and ends the same, with --email and without.
C17_PasswordsMasked ==
    \A r1, r2 \in shown :
        (r1.authinfo = r2.authinfo /\ r1.email = r2.email) => r1.out = r2.out

\* Both modes have printed a masked password.
C17_Witness ==
    /\ authinfo_fs[HomePath].kind = "file"
    /\ \E r \in shown :
           /\ r.email = <<>>
           /\ r.out.exit = ExitOk
           /\ \E i \in 1..Len(r.out.echo) : r.out.echo[i] = <<"    Pass: ", "*", "*">>
    /\ \E r \in shown :
           /\ r.email = Sender
           /\ r.out.exit = ExitOk
           /\ r.out.echo[5] = <<"  Pass:  ", "*", "*">>
    /\ \E i \in 1..Len(authinfo_fs[HomePath].text) : authinfo_fs[HomePath].text[i] = "b"
    /\ credentials_command(PathNone, Sender) \in {r.out : r \in shown}

----------------------------------------------------------------------------
(* Claims on the SMTP dialogue *)

\* The positions of a call in the log of the calls made on the server.
Calls(name) == {i \in 1..Len(smtp) : smtp[i] = name}

\* The AUTH decision of line 62 has been taken.
AuthDecided == pc = "se_send" \/ Calls("login") # {} \/ Calls("send_message") # {}

\* C19: within one send_email call EHLO comes first on the connection; with
\* use_tls STARTTLS and a second EHLO come before any login or message, and
\* without use_tls STARTTLS is never issued; login is attempted exactly when
\* the server advertises AUTH, and before send_message; send_message is issued
\* at most once, to the recipients to, then cc, then bcc.
C19_DialogueOrder ==
    (argv # Unset /\ smtp # <<>>) =>
        /\ smtp[1] = "connect"
        /\ Len(smtp) >= 2 => smtp[2] = "ehlo"
        /\ \A i \in 3..Len(smtp) : smtp[i] # "connect"
        /\ IF argv.use_tls
           THEN /\ (Len(smtp) >= 3 /\ smtp[3] # "quit") => smtp[3] = "starttls"
                /\ \A i \in Calls("login") \cup Calls("send_message") :
                       i > 4 /\ smtp[3] = "starttls" /\ smtp[4] = "ehlo"
           ELSE Calls("starttls") = {}
        /\ AuthDecided => (Calls("login") # {} <=> "auth" \in esmtp_features)
        /\ \A i \in Calls("login"), j \in Calls("send_message") : i < j
        /\ Cardinality(Calls("login")) <= 1
        /\ Cardinality(Calls("send_message")) <= 1
        /\ Calls("send_message") # {} => to_addrs = email.to \o email.cc \o email.bcc
        /\ Calls("send_message") = {} => to_addrs = <<>>

\* A dialogue over TLS with a login and a message to to, cc and bcc.
C19_Witness ==
    /\ argv # Unset
    /\ argv.use_tls
    /\ smtp = <<"connect", "ehlo", "starttls", "ehlo", "login", "send_message", "quit">>
    /\ "auth" \in esmtp_features
    /\ to_addrs = <<Rcpt("a"), Rcpt("b"), Rcpt("c"), Rcpt("d")>>
    /\ result.success

====
